---- MODULE Spec2Model ----
(***************************************************************************)
(* IEEE 802.15.4 MAC frame codec and outgoing security procedure           *)
(* (src/src/mac/frame/mod.rs).                                             *)
(*                                                                         *)
(* Frame::secure_frame, TryWrite/TryRead for Frame and for FrameContent    *)
(* are translated from mod.rs.  The header, address, auxiliary security    *)
(* header, beacon and command codecs live in sibling modules (header.rs,   *)
(* security.rs, beacon.rs, command.rs) that mod.rs only calls; they are    *)
(* modelled from the wire format of the specification and from the byte    *)
(* vectors of the tests in mod.rs.                                         *)
(*                                                                         *)
(* Number representation: TLC integers are 32-bit signed, so a u32 is the  *)
(* pair <<high 16 bits, low 16 bits>> and a u64 the four 16-bit words,     *)
(* most significant first.  Option<T> is a sequence of length 0 or 1.      *)
(***************************************************************************)
EXTENDS Integers, Sequences, FiniteSets, TLC

VARIABLES
    frame,          \* the Frame the caller holds (header, content, payload, footer)
    frame_counter,  \* SecurityContext.frame_counter (u32 as <<hi16, lo16>>)
    wire,           \* bytes[..len] written by the last successful try_write
    last            \* the last call: its name, inputs, return value and effects

vars == <<frame, frame_counter, wire, last>>

(***************************************************************************)
(* Bounds of the model.                                                    *)
(***************************************************************************)
MaxPayloadLen == 2

(***************************************************************************)
(* Option and byte::Result.                                                *)
(***************************************************************************)
None == <<>>

Some(x) == <<x>>

IsSome(o) == Len(o) = 1

Ok(v, n) == [ok |-> TRUE, val |-> v, n |-> n]

Err(e) == [ok |-> FALSE, err |-> e]

\* impl From<DecodeError> for byte::Error: NotEnoughBytes becomes Incomplete,
\* every other variant BadInput { err: <its name> } (the argument is dropped).
FromDecodeError(e) == IF e = "NotEnoughBytes" THEN "Incomplete" ELSE e

(***************************************************************************)
(* Little-endian integers.                                                 *)
(***************************************************************************)
U16ToLeBytes(w) == <<w % 256, w \div 256>>

\* b[off .. off+2] read as a little-endian u16; off counts from 0.
U16FromLe(b, off) == b[off + 1] + 256 * b[off + 2]

\* A multi-word unsigned (most significant 16-bit word first) as little-endian bytes.
WordsToLeBytes(ws) ==
    [k \in 1..(2 * Len(ws)) |->
        LET w == ws[Len(ws) - ((k - 1) \div 2)]
        IN  IF k % 2 = 1 THEN w % 256 ELSE w \div 256]

WordsFromLe(b, off, n) == [i \in 1..n |-> U16FromLe(b, off + 2 * (n - i))]

Drop(b, n) == SubSeq(b, n + 1, Len(b))

(***************************************************************************)
(* AddressCodec (header.rs; wire format of spec section 4.1 and 6).        *)
(* Address == [kind: {"Short","Extended"}, pan: u16, addr: words].         *)
(***************************************************************************)
AddressMode(a) ==
    IF ~IsSome(a) THEN 0 ELSE IF a[1].kind = "Short" THEN 2 ELSE 3

\* PAN identifier (unless compressed away), then the address, both little-endian.
AddressWrite(a, compressed) ==
    (IF compressed THEN <<>> ELSE U16ToLeBytes(a.pan)) \o WordsToLeBytes(a.addr)

\* implied: Some(pan) when PAN-ID compression applies to this address.
AddressRead(b, mode, implied) ==
    IF mode = 0 THEN Ok(None, 0)
    ELSE IF mode = 1 THEN Err("InvalidAddressMode")
    ELSE LET nw == IF mode = 2 THEN 1 ELSE 4
             np == IF IsSome(implied) THEN 0 ELSE 2
         IN  IF Len(b) < np + 2 * nw THEN Err("NotEnoughBytes")
             ELSE Ok(Some([kind |-> IF mode = 2 THEN "Short" ELSE "Extended",
                           pan  |-> IF IsSome(implied) THEN implied[1]
                                    ELSE U16FromLe(b, 0),
                           addr |-> WordsFromLe(b, np, nw)]),
                     np + 2 * nw)

(***************************************************************************)
(* AuxiliarySecurityHeader (security.rs, security_control.rs).             *)
(* [control: [security_level, key_id_mode], frame_counter: Option<u32>,    *)
(*  key_identifier: bytes].                                                *)
(***************************************************************************)
SecurityLevels ==
    <<"None", "MIC32", "MIC64", "MIC128", "ENC", "ENCMIC32", "ENCMIC64", "ENCMIC128">>

SecurityLevelBits(l) == CHOOSE i \in 0..7 : SecurityLevels[i + 1] = l

\* Width of the key identifier field per key identifier mode: 0/1/5/9 bytes.
KeyIdentifierLen(m) == IF m = 0 THEN 0 ELSE IF m = 1 THEN 1 ELSE IF m = 2 THEN 5 ELSE 9

FrameVersions == <<"Ieee802154_2003", "Ieee802154_2006", "Ieee802154">>

VersionBits(v) == CHOOSE i \in 0..2 : FrameVersions[i + 1] = v

\* The explicit frame counter field is present depending on the frame version.
HasFrameCounter(v) == v # "Ieee802154"

get_octet_size(aux) ==
    1 + (IF IsSome(aux.frame_counter) THEN 4 ELSE 0) + Len(aux.key_identifier)

AuxWrite(aux) ==
    <<SecurityLevelBits(aux.control.security_level) + 8 * aux.control.key_id_mode>>
    \o (IF IsSome(aux.frame_counter) THEN WordsToLeBytes(aux.frame_counter[1]) ELSE <<>>)
    \o aux.key_identifier

AuxRead(b, version) ==
    IF Len(b) < 1 THEN Err("NotEnoughBytes")
    ELSE LET level == b[1] % 8
             mode  == (b[1] \div 8) % 4
             nc    == IF HasFrameCounter(version) THEN 4 ELSE 0
             nk    == KeyIdentifierLen(mode)
         IN  IF Len(b) < 1 + nc + nk THEN Err("NotEnoughBytes")
             ELSE Ok([control        |-> [security_level |-> SecurityLevels[level + 1],
                                          key_id_mode    |-> mode],
                      frame_counter  |-> IF nc = 4 THEN Some(WordsFromLe(b, 1, 2))
                                         ELSE None,
                      key_identifier |-> SubSeq(b, 2 + nc, 1 + nc + nk)],
                     1 + nc + nk)

(***************************************************************************)
(* HeaderCodec (header.rs, frame_control.rs; spec section 4.2 and 6).      *)
(***************************************************************************)
FrameTypes == <<"Beacon", "Data", "Acknowledgement", "MacCommand">>

FrameTypeBits(t) == CHOOSE i \in 0..3 : FrameTypes[i + 1] = t

Bit(b) == IF b THEN 1 ELSE 0

\* [type:3][security:1][pending:1][ack_req:1][pan_compress:1][reserved:1]
\* [dst_mode:2][version:2][src_mode:2]
FrameControl(h) ==
    FrameTypeBits(h.frame_type) + 8 * Bit(h.security) + 16 * Bit(h.frame_pending)
    + 32 * Bit(h.ack_request) + 64 * Bit(h.pan_id_compress)
    + 1024 * AddressMode(h.destination) + 4096 * VersionBits(h.version)
    + 16384 * AddressMode(h.source)

\* Variant: the source PAN identifier always written.
SourceCompressedNever(h) == FALSE

\* The source PAN identifier is omitted when compression is set and both
\* addresses are present.
SourceCompressed(h) ==
    h.pan_id_compress /\ IsSome(h.destination) /\ IsSome(h.source)

HeaderWrite(h) ==
    LET dst   == IF IsSome(h.destination)
                 THEN AddressWrite(h.destination[1], FALSE) ELSE <<>>
        src   == IF IsSome(h.source)
                 THEN AddressWrite(h.source[1], SourceCompressed(h)) ELSE <<>>
        fixed == U16ToLeBytes(FrameControl(h)) \o <<h.seq>> \o dst \o src
        aux   == h.auxiliary_security_header
    IN  IF h.security /\ ~IsSome(aux) THEN Err(FromDecodeError("AuxSecHeaderAbsent"))
        ELSE IF ~h.security /\ IsSome(aux)
             THEN Err(FromDecodeError("SecurityNotEnabled"))
        ELSE LET out == IF h.security THEN fixed \o AuxWrite(aux[1]) ELSE fixed
             IN  Ok(out, Len(out))

HeaderReadAux(b, h, n) ==
    IF ~h.security THEN Ok(h, n)
    ELSE LET a == AuxRead(Drop(b, n), h.version)
         IN  IF ~a.ok THEN Err(FromDecodeError(a.err))
             ELSE Ok([h EXCEPT !.auxiliary_security_header = Some(a.val)], n + a.n)

HeaderReadSource(b, h, n, src_mode) ==
    IF h.pan_id_compress /\ ~IsSome(h.destination)
    THEN Err(FromDecodeError("InvalidAddressMode"))
    ELSE LET implied == IF h.pan_id_compress THEN Some(h.destination[1].pan) ELSE None
             s == AddressRead(Drop(b, n), src_mode, implied)
         IN  IF ~s.ok THEN Err(FromDecodeError(s.err))
             ELSE HeaderReadAux(b, [h EXCEPT !.source = s.val], n + s.n)

HeaderRead(b) ==
    IF Len(b) < 3 THEN Err(FromDecodeError("NotEnoughBytes"))
    ELSE LET fc       == U16FromLe(b, 0)
             ft       == fc % 8
             dst_mode == (fc \div 1024) % 4
             version  == (fc \div 4096) % 4
             src_mode == (fc \div 16384) % 4
         IN  IF ft > 3 THEN Err(FromDecodeError("InvalidFrameType"))
             ELSE IF version > 2 THEN Err(FromDecodeError("InvalidFrameVersion"))
             ELSE LET d == AddressRead(Drop(b, 3), dst_mode, None)
                  IN  IF ~d.ok THEN Err(FromDecodeError(d.err))
                      ELSE HeaderReadSource(b,
                               [frame_type      |-> FrameTypes[ft + 1],
                                security        |-> (fc \div 8) % 2 = 1,
                                frame_pending   |-> (fc \div 16) % 2 = 1,
                                ack_request     |-> (fc \div 32) % 2 = 1,
                                pan_id_compress |-> (fc \div 64) % 2 = 1,
                                version         |-> FrameVersions[version + 1],
                                seq             |-> b[3],
                                destination     |-> d.val,
                                source          |-> None,
                                auxiliary_security_header |-> None],
                               3 + d.n, src_mode)

(***************************************************************************)
(* Frame bodies (beacon.rs, command.rs): opaque to the frame codec.  A     *)
(* beacon is its superframe specification word with an empty guaranteed    *)
(* time slot list and an empty pending address list; a command is one of   *)
(* the body-less commands.  Byte values follow the vectors of              *)
(* tests::encode_ver1_extended and tests::encode_ver2_none.                *)
(***************************************************************************)
Commands == <<[name |-> "DataRequest", id |-> 4], [name |-> "BeaconRequest", id |-> 7]>>

BeaconWrite(beacon) ==
    LET out == U16ToLeBytes(beacon.superframe_spec) \o <<0, 0>> IN Ok(out, Len(out))

BeaconRead(b) ==
    IF Len(b) < 4 THEN Err(FromDecodeError("NotEnoughBytes"))
    ELSE IF b[3] # 0 \/ b[4] # 0 THEN Err(FromDecodeError("InvalidValue"))
    ELSE Ok([superframe_spec |-> U16FromLe(b, 0)], 4)

CommandWrite(command) ==
    LET c == CHOOSE x \in {Commands[i] : i \in DOMAIN Commands} : x.name = command
    IN  Ok(<<c.id>>, 1)

CommandRead(b) ==
    IF Len(b) < 1 THEN Err(FromDecodeError("NotEnoughBytes"))
    ELSE IF \E i \in DOMAIN Commands : Commands[i].id = b[1]
         THEN Ok((CHOOSE x \in {Commands[i] : i \in DOMAIN Commands} : x.id = b[1]).name, 1)
         ELSE Err(FromDecodeError("InvalidValue"))

(***************************************************************************)
(* impl TryWrite for FrameContent / impl TryRead<&Header> for FrameContent *)
(***************************************************************************)
ContentWrite(content) ==
    IF content.tag = "Beacon" THEN BeaconWrite(content.beacon)
    ELSE IF content.tag = "Command" THEN CommandWrite(content.command)
    ELSE Ok(<<>>, 0)

ContentRead(b, header) ==
    IF header.frame_type = "Beacon"
    THEN LET r == BeaconRead(b)
         IN  IF r.ok THEN Ok([tag |-> "Beacon", beacon |-> r.val], r.n) ELSE r
    ELSE IF header.frame_type = "Data" THEN Ok([tag |-> "Data"], 0)
    ELSE IF header.frame_type = "Acknowledgement" THEN Ok([tag |-> "Acknowledgement"], 0)
    ELSE LET r == CommandRead(b)
         IN  IF r.ok THEN Ok([tag |-> "Command", command |-> r.val], r.n) ELSE r

(***************************************************************************)
(* impl TryWrite<FrameSerDesContext> for Frame                             *)
(***************************************************************************)
\* Capacity of the caller's output buffer: one PHY packet.
aMaxPHYPacketSize == 127

\* The footer is written from the footer field only under FooterMode::Explicit.
FooterWritten(self, mode) == IF mode = "Explicit" THEN self.footer ELSE <<>>

FrameTryWrite(self, mode) ==
    LET h == HeaderWrite(self.header)
    IN  IF ~h.ok THEN h
        ELSE LET c == ContentWrite(self.content)
             IN  IF ~c.ok THEN c
                 ELSE LET out == h.val \o c.val \o self.payload
                                 \o FooterWritten(self, mode)
                      IN  IF Len(out) > aMaxPHYPacketSize THEN Err("Incomplete")
                          ELSE Ok(out, Len(out))

(***************************************************************************)
(* impl TryRead<(FooterMode, AEAD)> for Frame                              *)
(***************************************************************************)
U16FromBe(b, off) == 256 * b[off + 1] + b[off + 2]

U16ToBeBytes(w) == <<w \div 256, w % 256>>

\* Variant: the footer read big-endian.
FooterReadBe(b, off) == U16FromBe(b, off)

\* bytes.read_with(offset, LE): the footer as a u16.
FooterRead(b, off) == U16FromLe(b, off)

\* Variant: footer.to_be_bytes()
FooterBytesBe(footer) == U16ToBeBytes(footer)

\* footer.to_le_bytes()
FooterBytes(footer) == U16ToLeBytes(footer)

\* Bytes::Len(bytes.len() - *offset - 2)
ExplicitPayloadLen(len, offset) == len - offset - 2

\* Bytes::Len(bytes.len() - *offset)
NonePayloadLen(len, offset) == len - offset

\* Reading the payload and the footer once header and content are consumed.
\* bytes.len() - *offset - 2 is a usize subtraction: with fewer than 2 bytes
\* left it panics when overflow checks are compiled in and otherwise wraps to
\* a length no buffer has, which Bytes::Len rejects as Incomplete.
FrameReadTail(b, header, content, offset, mode, overflow_checks) ==
    IF mode = "None"
    THEN LET n == NonePayloadLen(Len(b), offset)
         IN  IF offset + n > Len(b) THEN Err("Incomplete")
             ELSE Ok([header  |-> header, content |-> content,
                      payload |-> SubSeq(b, offset + 1, offset + n),
                      footer  |-> FooterBytes(0)],
                     offset + n)
    ELSE IF ExplicitPayloadLen(Len(b), offset) < 0
         THEN IF overflow_checks THEN [ok |-> FALSE, err |-> "panic"]
              ELSE Err("Incomplete")
    ELSE LET n == ExplicitPayloadLen(Len(b), offset)
         IN  IF offset + n > Len(b) \/ offset + n + 2 > Len(b) THEN Err("Incomplete")
             ELSE Ok([header  |-> header, content |-> content,
                      payload |-> SubSeq(b, offset + 1, offset + n),
                      footer  |-> FooterBytes(FooterRead(b, offset + n))],
                     offset + n + 2)

FrameTryRead(b, mode, overflow_checks) ==
    LET h == HeaderRead(b)
    IN  IF ~h.ok THEN h
        ELSE LET c == ContentRead(Drop(b, h.n), h.val)
             IN  IF ~c.ok THEN c
                 ELSE FrameReadTail(b, h.val, c.val, h.n + c.n, mode, overflow_checks)

(***************************************************************************)
(* Frame::secure_frame (outgoing frame security procedure 7.2.1).          *)
(*                                                                         *)
(* The value returned here is the whole effect of one call:                *)
(*   ret / err      Ok(()), Err(SecurityError::err) or a panic,            *)
(*   frame          *self after the call,                                  *)
(*   frame_counter  context.frame_counter after the call,                  *)
(*   lookups        the key_provider.lookup_key calls made,                *)
(*   aead           the encrypt_in_place_detached calls made, each with    *)
(*                  its nonce, associated data and buffer.                 *)
(* lookup is what key_provider.lookup_key answers (None, or Some key       *)
(* descriptor); a descriptor's usable field tells whether                  *)
(* AEAD::new_from_slice accepts its key bytes.  Both belong to type        *)
(* parameters of secure_frame and are inputs of the model.                 *)
(***************************************************************************)
\* AEAD::NonceSize: ArrayLength<U13>
NonceSize == 13

\* 0xFFFFFFFF
FrameCounterMax == <<65535, 65535>>

\* u32 addition of 1, wrapping.
Inc32(c) ==
    IF c[2] < 65535 THEN <<c[1], c[2] + 1>> ELSE <<(c[1] + 1) % 65536, 0>>

auth_len(security_level) ==
    CASE security_level = "None"      -> 0
      [] security_level = "MIC32"     -> 4
      [] security_level = "MIC64"     -> 8
      [] security_level = "MIC128"    -> 16
      [] security_level = "ENC"       -> 0
      [] security_level = "ENCMIC32"  -> 4
      [] security_level = "ENCMIC64"  -> 8
      [] security_level = "ENCMIC128" -> 16

\* if auth_len + aux_len + 2 > 127
FrameTooLong(aux_sec_header) ==
    auth_len(aux_sec_header.control.security_level)
    + get_octet_size(aux_sec_header) + 2 > aMaxPHYPacketSize

\* Variant: the counter check left out.
CounterExhaustedNever(frame_counter_value) == FALSE

\* if *frame_counter == 0xFFFFFFFF
CounterExhausted(frame_counter_value) == frame_counter_value = FrameCounterMax

\* let nonce = GenericArray::default();
Nonce(self, frame_counter_value, security_level) == [i \in 1..NonceSize |-> 0]

\* aead_in_place.encrypt_in_place_detached(&nonce, &self.payload, &mut []):
\* the payload is the associated data, the buffer is empty, the tag is dropped.
AeadCall(self, frame_counter_value, security_level) ==
    [nonce           |-> Nonce(self, frame_counter_value, security_level),
     associated_data |-> self.payload,
     buffer          |-> <<>>]

\* Variant: the counter advanced on every return, rejected attempts included.
FrameCounterOnReturnBumped(frame_counter_value, ret) == Inc32(frame_counter_value)

\* context.frame_counter is borrowed at the top of secure_frame and only
\* compared afterwards: no path assigns it.
FrameCounterOnReturn(frame_counter_value, ret) == frame_counter_value

\* *self when secure_frame returns: self.payload is a shared slice, the tag
\* computed for the MIC levels is dropped and the other arms are empty.
FrameOnReturn(self, security_level) == self

Return(self, frame_counter_value, ret, err, lookups, aead) ==
    [ret           |-> ret,
     err           |-> err,
     frame         |-> self,
     frame_counter |-> FrameCounterOnReturn(frame_counter_value, ret),
     lookups       |-> lookups,
     aead          |-> aead]

\* match aux_sec_header.control.security_level { ... } with the key found.
Transform(self, aux_sec_header, frame_counter_value, key) ==
    LET level == aux_sec_header.control.security_level
    IN  IF level \in {"MIC32", "MIC64", "MIC128"}
        THEN IF ~key.usable
             THEN Return(self, frame_counter_value, "Err", "KeyFailure", 1, <<>>)
             ELSE Return(FrameOnReturn(self, level), frame_counter_value, "Ok", "", 1,
                         <<AeadCall(self, frame_counter_value, level)>>)
        ELSE Return(FrameOnReturn(self, level), frame_counter_value, "Ok", "", 1, <<>>)

\* Variant: the key looked up before the counter check.
ProcedureLookupFirst(self, aux_sec_header, frame_counter_value, lookup) ==
    IF FrameTooLong(aux_sec_header)
    THEN Return(self, frame_counter_value, "Err", "FrameTooLong", 0, <<>>)
    ELSE IF ~IsSome(lookup)
    THEN Return(self, frame_counter_value, "Err", "UnavailableKey", 1, <<>>)
    ELSE IF CounterExhausted(frame_counter_value)
    THEN Return(self, frame_counter_value, "Err", "CounterError", 1, <<>>)
    ELSE Transform(self, aux_sec_header, frame_counter_value, lookup[1])

Procedure(self, aux_sec_header, frame_counter_value, lookup) ==
    IF FrameTooLong(aux_sec_header)
    THEN Return(self, frame_counter_value, "Err", "FrameTooLong", 0, <<>>)
    ELSE IF CounterExhausted(frame_counter_value)
    THEN Return(self, frame_counter_value, "Err", "CounterError", 0, <<>>)
    ELSE IF IsSome(lookup)
    THEN Transform(self, aux_sec_header, frame_counter_value, lookup[1])
    ELSE Return(self, frame_counter_value, "Err", "UnavailableKey", 1, <<>>)

Panic(self, frame_counter_value, message) ==
    [ret           |-> "Panic",
     err           |-> message,
     frame         |-> self,
     frame_counter |-> frame_counter_value,
     lookups       |-> 0,
     aead          |-> <<>>]

\* Variant: the counter check hoisted above the test of header.security.
secure_frame_counter_first(self, frame_counter_value, lookup) ==
    IF CounterExhausted(frame_counter_value)
    THEN Return(self, frame_counter_value, "Err", "CounterError", 0, <<>>)
    ELSE IF self.header.security
    THEN IF IsSome(self.header.auxiliary_security_header)
         THEN Procedure(self, self.header.auxiliary_security_header[1],
                        frame_counter_value, lookup)
         ELSE Panic(self, frame_counter_value, "Security on but AuxSecHeader absent")
    ELSE IF IsSome(self.header.auxiliary_security_header)
         THEN Panic(self, frame_counter_value, "Security off but AuxSecHeader present")
         ELSE Return(self, frame_counter_value, "Ok", "", 0, <<>>)

secure_frame(self, frame_counter_value, lookup) ==
    IF self.header.security
    THEN IF IsSome(self.header.auxiliary_security_header)
         THEN Procedure(self, self.header.auxiliary_security_header[1],
                        frame_counter_value, lookup)
         ELSE Panic(self, frame_counter_value, "Security on but AuxSecHeader absent")
    ELSE IF IsSome(self.header.auxiliary_security_header)
         THEN Panic(self, frame_counter_value, "Security off but AuxSecHeader present")
         ELSE Return(self, frame_counter_value, "Ok", "", 0, <<>>)

(***************************************************************************)
(* The frames, contexts and key provider answers the calls are tried on.   *)
(***************************************************************************)
Short(pan, addr) == [kind |-> "Short", pan |-> pan, addr |-> <<addr>>]

Extended(pan, words) == [kind |-> "Extended", pan |-> pan, addr |-> words]

Addresses ==
    {Short(4660, 22136), Short(17185, 39612),
     Extended(4660, <<4386, 13124, 21862, 30600>>)}

OptAddresses == {None} \cup {Some(a) : a \in Addresses}

\* Payloads are the prefixes of 0xde, 0xf0, 0x02, ... (the payload of the tests).
PayloadByte(i) == (222 + 18 * (i - 1)) % 256

Payloads == {[i \in 1..n |-> PayloadByte(i)] : n \in 0..MaxPayloadLen}

Footers == {<<18, 52>>}

Aux(version, level, mode) ==
    [control        |-> [security_level |-> level, key_id_mode |-> mode],
     frame_counter  |-> IF HasFrameCounter(version) THEN Some(<<1, 515>>) ELSE None,
     key_identifier |-> [i \in 1..KeyIdentifierLen(mode) |-> 160 + i]]

Contents ==
    {[type |-> "Beacon", content |-> [tag |-> "Beacon", beacon |-> [superframe_spec |-> 4095]]],
     [type |-> "Data", content |-> [tag |-> "Data"]],
     [type |-> "Acknowledgement", content |-> [tag |-> "Acknowledgement"]]}
    \cup {[type |-> "MacCommand",
           content |-> [tag |-> "Command", command |-> Commands[i].name]] :
          i \in DOMAIN Commands}

MkFrame(tc, sec, pending, ack, compress, version, dst, src, payload, footer) ==
    [header  |-> [frame_type      |-> tc.type,
                  security        |-> sec[1],
                  frame_pending   |-> pending,
                  ack_request     |-> ack,
                  pan_id_compress |-> compress,
                  version         |-> version,
                  seq             |-> 145,
                  destination     |-> dst,
                  source          |-> src,
                  auxiliary_security_header |-> sec[2]],
     content |-> tc.content,
     payload |-> payload,
     footer  |-> footer]

\* Every security level and key identifier mode, and the two ways the
\* security flag and the auxiliary security header can disagree.
SecureSecurity ==
    {<<FALSE, None>>, <<TRUE, None>>, <<FALSE, Some(Aux("Ieee802154_2006", "MIC32", 0))>>}
    \cup {<<TRUE, Some(Aux("Ieee802154_2006", SecurityLevels[l], m))>> :
          l \in DOMAIN SecurityLevels, m \in 0..3}

SecureFrames ==
    {MkFrame([type |-> "Data", content |-> [tag |-> "Data"]], sec, FALSE, FALSE, FALSE,
             "Ieee802154_2006", dst, src, payload, footer) :
        sec \in SecureSecurity, dst \in {None, Some(Short(4660, 22136))},
        src \in OptAddresses, payload \in Payloads, footer \in Footers}

CodecSecurity(version) ==
    {<<FALSE, None>>, <<TRUE, Some(Aux(version, "ENCMIC64", 2))>>}

\* Every frame type, control bit, version and address combination.
CodecFrames ==
    UNION {{MkFrame(tc, sec, pending, ack, compress, version, dst, src, payload, footer) :
               tc \in Contents, sec \in CodecSecurity(version),
               pending \in BOOLEAN, ack \in BOOLEAN, compress \in BOOLEAN,
               dst \in OptAddresses, src \in OptAddresses,
               payload \in Payloads, footer \in Footers} :
           version \in {FrameVersions[i] : i \in DOMAIN FrameVersions}}

FrameCounters == {<<0, 0>>, <<0, 65535>>, FrameCounterMax}

KeyDescriptors == {[usable |-> TRUE], [usable |-> FALSE]}

Lookups == {None} \cup {Some(k) : k \in KeyDescriptors}

FooterModes == {"None", "Explicit"}

(***************************************************************************)
(* The state machine: a caller holding one frame and one security context  *)
(* calls secure_frame, try_write and try_read in any order.  A panic ends   *)
(* the process.                                                            *)
(***************************************************************************)
Init ==
    /\ \/ frame \in SecureFrames /\ frame_counter \in FrameCounters
       \/ frame \in CodecFrames /\ frame_counter = <<0, 0>>
    /\ wire = <<>>
    /\ last = [op |-> "new"]

Panicked ==
    \/ last.op = "secure_frame" /\ last.ret = "Panic"
    \/ last.op = "try_read" /\ ~last.result.ok /\ last.result.err = "panic"

SecureFrame ==
    /\ ~Panicked
    /\ \E lookup \in Lookups :
          LET r == secure_frame(frame, frame_counter, lookup)
          IN  /\ frame' = r.frame
              /\ frame_counter' = r.frame_counter
              /\ last' = [op      |-> "secure_frame",
                          self    |-> frame,
                          counter |-> frame_counter,
                          lookup  |-> lookup,
                          ret     |-> r.ret,
                          err     |-> r.err,
                          lookups |-> r.lookups,
                          aead    |-> r.aead]
    /\ UNCHANGED wire

Encode ==
    /\ ~Panicked
    /\ \E mode \in FooterModes :
          LET r == FrameTryWrite(frame, mode)
          IN  /\ wire' = IF r.ok THEN r.val ELSE wire
              /\ last' = [op |-> "try_write", self |-> frame, mode |-> mode, result |-> r]
    /\ UNCHANGED <<frame, frame_counter>>

Decode ==
    /\ ~Panicked
    /\ \E mode \in FooterModes, overflow_checks \in BOOLEAN :
          last' = [op     |-> "try_read",
                   bytes  |-> wire,
                   mode   |-> mode,
                   result |-> FrameTryRead(wire, mode, overflow_checks)]
    /\ UNCHANGED <<frame, frame_counter, wire>>

Next == SecureFrame \/ Encode \/ Decode

Spec == Init /\ [][Next]_vars

(***************************************************************************)
(* Properties of secure_frame.                                             *)
(***************************************************************************)
Secured == last.op = "secure_frame"

AuxOf(f) == f.header.auxiliary_security_header[1]

LevelOf(f) == AuxOf(f).control.security_level

\* A security-enabled frame carrying its auxiliary security header.
SecurityApplies(f) == f.header.security /\ IsSome(f.header.auxiliary_security_header)

\* C1: a secure_frame call on a frame with header.security set that returns
\* Ok leaves frame_counter at its value before the call plus exactly 1.
C1_CounterAdvancesByOne ==
    (Secured /\ last.self.header.security /\ last.ret = "Ok")
        => frame_counter = Inc32(last.counter)

\* C2: securing a security-enabled frame through a context whose
\* frame_counter is 0xFFFFFFFF fails with CounterError, and leaves the
\* counter at 0xFFFFFFFF and the payload unchanged.
C2_CounterExhaustion ==
    (Secured /\ SecurityApplies(last.self) /\ last.counter = FrameCounterMax)
        => /\ last.ret = "Err"
           /\ last.err = "CounterError"
           /\ frame_counter = FrameCounterMax
           /\ frame.payload = last.self.payload

C2_Witness ==
    /\ Secured
    /\ SecurityApplies(last.self)
    /\ last.counter = FrameCounterMax
    /\ last.err = "CounterError"
    /\ LevelOf(last.self) = "ENCMIC128"
    /\ Len(last.self.payload) > 0
    /\ IsSome(last.lookup)

\* C3: a secure_frame call rejected with a SecurityError leaves
\* frame_counter at its value before the call.
C3_RejectedKeepsCounter ==
    (Secured /\ last.ret = "Err") => frame_counter = last.counter

C3_Witness ==
    /\ Secured
    /\ last.ret = "Err"
    /\ last.err = "KeyFailure"
    /\ last.counter = <<0, 65535>>
    /\ frame_counter = <<0, 65535>>

\* The nonce of spec section 4.4 step 7: the 8 bytes of the source extended
\* address, the frame counter big-endian, the security level.
DerivedNonce(f, counter, level) ==
    LET a == f.header.source[1].addr
    IN  [k \in 1..8 |-> IF k % 2 = 1 THEN a[(k + 1) \div 2] \div 256
                         ELSE a[k \div 2] % 256]
        \o U16ToBeBytes(counter[1]) \o U16ToBeBytes(counter[2])
        \o <<SecurityLevelBits(level)>>

\* C4: the nonce handed to the AEAD primitive is the 13-byte value built
\* from the source extended address, the big-endian frame counter and the
\* security level.
C4_NonceIsDerived ==
    (/\ Secured
     /\ last.ret = "Ok"
     /\ IsSome(last.self.header.source)
     /\ last.self.header.source[1].kind = "Extended")
        => \A i \in DOMAIN last.aead :
              last.aead[i].nonce = DerivedNonce(last.self, last.counter, LevelOf(last.self))

\* C5: a successful secure operation transforms the frame by its security
\* level: None changes nothing; MIC32/64/128 keep the payload and append a
\* tag of 4/8/16 bytes; ENC encrypts the payload in place and appends
\* nothing; ENCMIC32/64/128 encrypt in place and append a tag of 4/8/16 bytes.
C5_TransformByLevel ==
    (Secured /\ SecurityApplies(last.self) /\ last.ret = "Ok")
        => LET level  == LevelOf(last.self)
               before == last.self.payload
               after  == frame.payload
               encrypted == /\ Len(last.aead) = 1
                            /\ last.aead[1].buffer = before
           IN  /\ level = "None" => frame = last.self
               /\ level \in {"MIC32", "MIC64", "MIC128"}
                     => /\ Len(after) = Len(before) + auth_len(level)
                        /\ SubSeq(after, 1, Len(before)) = before
               /\ level = "ENC" => encrypted /\ Len(after) = Len(before)
               /\ level \in {"ENCMIC32", "ENCMIC64", "ENCMIC128"}
                     => encrypted /\ Len(after) = Len(before) + auth_len(level)

\* C6: when header.security and the presence of the auxiliary security
\* header disagree, secure_frame returns an error value and does not panic.
C6_DisagreementIsReported ==
    (Secured /\ last.self.header.security
                  # IsSome(last.self.header.auxiliary_security_header))
        => last.ret = "Err"

\* C7: with header.security clear and no auxiliary security header,
\* secure_frame returns Ok, leaves the frame and the frame counter (whatever
\* its value) unchanged and does not consult the key provider.
C7_SecurityOffIsNoOp ==
    (/\ Secured
     /\ ~last.self.header.security
     /\ ~IsSome(last.self.header.auxiliary_security_header))
        => /\ last.ret = "Ok"
           /\ frame = last.self
           /\ frame_counter = last.counter
           /\ last.lookups = 0
           /\ last.aead = <<>>

C7_Witness ==
    /\ Secured
    /\ ~last.self.header.security
    /\ ~IsSome(last.self.header.auxiliary_security_header)
    /\ last.counter = FrameCounterMax
    /\ last.ret = "Ok"
    /\ IsSome(last.lookup)

(***************************************************************************)
(* Properties of the frame codec.                                          *)
(***************************************************************************)
Decoded == last.op = "try_read" /\ last.result.ok

\* A frame the header invariants of the data model hold for: the security
\* flag agrees with the auxiliary security header, whose optional fields
\* are the ones its version and key identifier mode call for; PAN-ID
\* compression is set only on two addresses of one PAN; the content is the
\* variant of the frame type.
WellFormed(f) ==
    LET h == f.header
    IN  /\ h.security = IsSome(h.auxiliary_security_header)
        /\ IsSome(h.auxiliary_security_header)
              => /\ IsSome(AuxOf(f).frame_counter) = HasFrameCounter(h.version)
                 /\ Len(AuxOf(f).key_identifier)
                       = KeyIdentifierLen(AuxOf(f).control.key_id_mode)
        /\ h.pan_id_compress
              => /\ IsSome(h.destination)
                 /\ IsSome(h.source)
                 /\ h.source[1].pan = h.destination[1].pan
        /\ f.content.tag = (IF h.frame_type = "MacCommand" THEN "Command"
                            ELSE h.frame_type)

\* C8: decoding under FooterMode::Explicit the bytes that encoding a
\* well-formed frame under FooterMode::Explicit produced yields that frame,
\* header, content, payload and footer, and consumes the encoded length.
C8_RoundTrip ==
    LET e == FrameTryWrite(frame, "Explicit")
    IN  (/\ last.op = "try_read"
         /\ last.mode = "Explicit"
         /\ WellFormed(frame)
         /\ e.ok
         /\ last.bytes = e.val)
            => /\ last.result.ok
               /\ last.result.val = frame
               /\ last.result.n = e.n

C8_Witness ==
    /\ Decoded
    /\ last.mode = "Explicit"
    /\ WellFormed(frame)
    /\ last.bytes = FrameTryWrite(frame, "Explicit").val
    /\ last.result.val = frame
    /\ frame.header.security
    /\ frame.header.pan_id_compress
    /\ frame.header.frame_type = "Beacon"
    /\ frame.header.source[1].kind = "Extended"
    /\ Len(frame.payload) > 0

\* The bytes of b that follow the header and the frame-type-specific content.
AfterContent(b) ==
    LET h == HeaderRead(b) IN h.n + ContentRead(Drop(b, h.n), h.val).n

\* C9: on a successful decode the payload is, under FooterMode::Explicit,
\* the bytes after header and content minus the final 2, and the footer
\* those final 2 bytes in wire order; under FooterMode::None the payload is
\* all the bytes after header and content and the footer is [0,0]; either
\* way the consumed length is the length of the input.
C9_PayloadAndFooter ==
    Decoded
        => LET b   == last.bytes
               off == AfterContent(b)
               f   == last.result.val
           IN  /\ last.result.n = Len(b)
               /\ last.mode = "Explicit"
                     => /\ f.payload = SubSeq(b, off + 1, Len(b) - 2)
                        /\ f.footer = <<b[Len(b) - 1], b[Len(b)]>>
               /\ last.mode = "None"
                     => /\ f.payload = Drop(b, off)
                        /\ f.footer = <<0, 0>>

C9_Witness ==
    /\ Decoded
    /\ last.mode = "Explicit"
    /\ Len(last.result.val.payload) > 0
    /\ last.result.val.footer = <<18, 52>>
    /\ last.result.val.header.frame_type = "MacCommand"

BothAddressesOnePan(f) ==
    /\ IsSome(f.header.destination)
    /\ IsSome(f.header.source)
    /\ f.header.source[1].pan = f.header.destination[1].pan

\* C10: a frame with both addresses present and equal PAN ids encodes, with
\* pan_id_compress set, to exactly 2 bytes fewer than with it clear, and
\* decoding the compressed bytes (under the footer mode they were encoded
\* with) yields a source address whose PAN id is the destination's.
C10_PanIdCompression ==
    /\ (/\ last.op = "try_write"
        /\ last.result.ok
        /\ frame.header.pan_id_compress
        /\ BothAddressesOnePan(frame))
          => LET plain == FrameTryWrite(
                              [frame EXCEPT !.header.pan_id_compress = FALSE],
                              last.mode)
             IN  plain.ok /\ last.result.n = plain.n - 2
    /\ (/\ last.op = "try_read"
        /\ frame.header.pan_id_compress
        /\ BothAddressesOnePan(frame)
        /\ FrameTryWrite(frame, last.mode).ok
        /\ last.bytes = FrameTryWrite(frame, last.mode).val)
          => /\ last.result.ok
             /\ last.result.val.header.pan_id_compress
             /\ last.result.val.header.destination = frame.header.destination
             /\ last.result.val.header.source = frame.header.source
             /\ last.result.val.header.source[1].pan
                   = last.result.val.header.destination[1].pan

C10_Witness ==
    /\ Decoded
    /\ frame.header.pan_id_compress
    /\ BothAddressesOnePan(frame)
    /\ last.bytes = FrameTryWrite(frame, "None").val
    /\ last.result.val.header.source = frame.header.source
    /\ frame.header.destination[1].kind = "Extended"
    /\ frame.header.source[1].kind = "Short"
    /\ Len(last.bytes) + 2
          = FrameTryWrite([frame EXCEPT !.header.pan_id_compress = FALSE], "None").n

(***************************************************************************)
(* Totality of decode and the order of the steps of secure_frame.          *)
(***************************************************************************)
\* The header and the content of b decode, so try_read goes on to the payload.
ReachesPayload(b) ==
    /\ HeaderRead(b).ok
    /\ ContentRead(Drop(b, HeaderRead(b).n), HeaderRead(b).val).ok

\* C11: decode returns a frame or a decode error for every buffer and footer
\* mode and never panics (the payload length is not taken by an unsigned
\* subtraction that underflows); under FooterMode::Explicit a buffer with
\* fewer than 2 bytes left after header and content fails with
\* NotEnoughBytes (byte::Error::Incomplete).
C11_DecodeIsTotal ==
    last.op = "try_read"
        => /\ last.result.ok \/ last.result.err # "panic"
           /\ (/\ last.mode = "Explicit"
               /\ ReachesPayload(last.bytes)
               /\ Len(last.bytes) - AfterContent(last.bytes) < 2)
                 => (~last.result.ok /\ last.result.err = "Incomplete")

\* C12: within one secure attempt on a security-enabled frame lookup_key is
\* called at most once and only after the length check and the counter
\* check have passed (never when the attempt ends in FrameTooLong or
\* CounterError), every later outcome follows exactly one lookup, and a
\* lookup miss ends the attempt with UnavailableKey with no AEAD in use.
C12_StepOrder ==
    (Secured /\ SecurityApplies(last.self))
        => /\ last.lookups <= 1
           /\ last.lookups = 1
                 => /\ ~FrameTooLong(AuxOf(last.self))
                    /\ last.counter # FrameCounterMax
           /\ (last.ret = "Err" /\ last.err \in {"FrameTooLong", "CounterError"})
                 => last.lookups = 0 /\ last.aead = <<>>
           /\ (last.ret = "Ok" \/ last.err \in {"UnavailableKey", "KeyFailure"})
                 => last.lookups = 1
           /\ (last.lookups = 1 /\ ~IsSome(last.lookup))
                 => /\ last.ret = "Err"
                    /\ last.err = "UnavailableKey"
                    /\ last.aead = <<>>
           /\ last.aead # <<>> => (last.lookups = 1 /\ IsSome(last.lookup))

C12_Witness ==
    /\ Secured
    /\ SecurityApplies(last.self)
    /\ LevelOf(last.self) = "MIC64"
    /\ last.counter = FrameCounterMax
    /\ IsSome(last.lookup)
    /\ last.err = "CounterError"
    /\ last.lookups = 0

====
